---- MODULE Spec2Model ----
(***************************************************************************)
(* TabModel (src/lib/tabwidget/tabmodel.cpp): the list model that mirrors  *)
(* a browser window's tabs.  The model's state is the window pointer and   *)
(* the vector m_tabs; the tab container (TabWidget) is the collaborator    *)
(* that owns the authoritative order and delivers tabInserted, tabRemoved  *)
(* and tabMoved.                                                           *)
(***************************************************************************)
EXTENDS Integers, Sequences, FiniteSets, TLC

\* ---------------------------------------------------------------- bounds
MaxTabs == 4        \* tabs that exist, and so the longest list
MaxConn == 1        \* times one tab is inserted into this model
MaxSel == 3         \* indexes handed to one mimeData call
MaxForeign == 2     \* entries of a payload that mimeData did not write

VARIABLES
    m_window,   \* TRUE while m_window points at the window, FALSE once null
    m_tabs,     \* the model's list
    wtabs,      \* the tab container's own order (the authoritative one)
    conn,       \* per tab, how many times tabInserted connected its signals
    ins,        \* the tab the container last inserted beside the live model and
                \* the index of that tabInserted, while the tab stays in the list
    undo,       \* the list before the last tabInserted and its index, while
                \* no other signal has arrived since, and whether a tabRemoved
                \* of that index came right after it
    mime,       \* the payload of the drag in progress
    lastOp,     \* where the UI thread is: idle in the event loop, or back from
                \* an operation, with its name, arguments and m_tabs before it
    notes,      \* what that operation told the observers, in order
    fault,      \* that operation ran into undefined behaviour
    result,     \* what it returned
    moveReqs,   \* the moveTab(from, to) calls it made, in order (a drop)
    dropTabs    \* the tabs it resolved from its payload (a drop)

vars == <<m_window, m_tabs, wtabs, conn, ins, undo, mime, lastOp, notes, fault,
          result, moveReqs, dropTabs>>

Tabs == 1..MaxTabs
NoTab == 0          \* the null WebTab*, what QVector::value gives out of range
NoIns == [tab |-> NoTab, row |-> -1]
NoUndo == [active |-> FALSE, row |-> -1, pre |-> <<>>, done |-> FALSE]

\* ------------------------------------------------------- QVector<WebTab*>
\* QVector::insert(i, x), 0 <= i <= size
InsertAt(s, i, x) == SubSeq(s, 1, i) \o <<x>> \o SubSeq(s, i + 1, Len(s))

\* QVector::remove(i), 0 <= i < size
RemoveAt(s, i) == SubSeq(s, 1, i) \o SubSeq(s, i + 2, Len(s))

\* QVector::value(i): the default value outside the vector
Value(s, i) == IF i >= 0 /\ i < Len(s) THEN s[i + 1] ELSE NoTab

\* QVector::indexOf(x): the first position, -1 when absent
IndexOf(s, x) ==
    IF \E k \in 1..Len(s) : s[k] = x
    THEN (CHOOSE k \in 1..Len(s) : s[k] = x /\ \A j \in 1..(k - 1) : s[j] # x) - 1
    ELSE -1

\* ------------------------------------------------------------ QModelIndex
InvalidIndex == [valid |-> FALSE, row |-> -1, column |-> -1]

\* QAbstractListModel::index(row): valid only for an existing row
index(tabs, row) ==
    IF row >= 0 /\ row < Len(tabs)
    THEN [valid |-> TRUE, row |-> row, column |-> 0]
    ELSE InvalidIndex

\* TabModel::tabIndex
tabIndex(tabs, t) ==
    LET idx == IndexOf(tabs, t) IN
    IF idx < 0 THEN InvalidIndex ELSE index(tabs, idx)

\* TabModel::tab
tab(tabs, idx) == Value(tabs, idx.row)

\* TabModel::rowCount
rowCount(tabs, parentValid) == IF parentValid THEN 0 ELSE Len(tabs)

\* ------------------------------------------------------------------ roles
Roles ==
    {"WebTabRole", "TitleRole", "DisplayRole", "IconRole", "DecorationRole",
     "PinnedRole", "RestoredRole", "CurrentTabRole", "LoadingRole",
     "AudioPlayingRole", "AudioMutedRole"}

\* roles of the toolkit that the switch of data() has no case for
OtherRoles == {"EditRole", "ToolTipRole"}

NoValue == <<"QVariant">>

\* a slip in data: the switch without the toolkit's two generic roles
RoleValueNoAliases(t, role) ==
    CASE role = "WebTabRole" -> <<"webTab", t>>
      [] role = "TitleRole" -> <<"title", t>>
      [] role = "IconRole" -> <<"icon", t>>
      [] role = "PinnedRole" -> <<"isPinned", t>>
      [] role = "RestoredRole" -> <<"isRestored", t>>
      [] role = "CurrentTabRole" -> <<"isCurrentTab", t>>
      [] role = "LoadingRole" -> <<"isLoading", t>>
      [] role = "AudioPlayingRole" -> <<"isPlaying", t>>
      [] role = "AudioMutedRole" -> <<"isMuted", t>>
      [] OTHER -> <<"QVariant">>

\* the switch of TabModel::data: the getter called on the tab
RoleValue(t, role) ==
    CASE role = "WebTabRole" -> <<"webTab", t>>
      [] role \in {"TitleRole", "DisplayRole"} -> <<"title", t>>
      [] role \in {"IconRole", "DecorationRole"} -> <<"icon", t>>
      [] role = "PinnedRole" -> <<"isPinned", t>>
      [] role = "RestoredRole" -> <<"isRestored", t>>
      [] role = "CurrentTabRole" -> <<"isCurrentTab", t>>
      [] role = "LoadingRole" -> <<"isLoading", t>>
      [] role = "AudioPlayingRole" -> <<"isPlaying", t>>
      [] role = "AudioMutedRole" -> <<"isMuted", t>>
      [] OTHER -> NoValue

\* the row guard of TabModel::data
DataRowRejected(tabs, row) == row < 0 \/ row > Len(tabs)

\* TabModel::data
data(tabs, idx, role) ==
    IF DataRowRejected(tabs, idx.row)
    THEN NoValue
    ELSE LET t == tab(tabs, idx) IN
         IF t = NoTab THEN NoValue ELSE RoleValue(t, role)

\* ---------------------------------------------------------- notifications
\* one call into the observers' protocol, with the list as it is at the call
Note(sig, args, tabs) == [sig |-> sig, args |-> args, tabs |-> tabs]

\* ------------------------------------------------------ structural handlers
\* a handler maps s = [tabs, notes, conn] to the same after it ran

\* a slip in tabInserted: the tab is appended, whatever the index
InsertedListAppend(tabs, idx, t) == Append(tabs, t)

\* m_tabs.insert(index, tab)
InsertedList(tabs, idx, t) == InsertAt(tabs, idx, t)

\* TabModel::tabInserted, w the container's tabs when the signal is delivered
tabInserted(s, idx, w) ==
    LET t == w[idx + 1]
        after == InsertedList(s.tabs, idx, t)
    IN  [tabs |-> after,
         notes |-> s.notes \o <<Note("beginInsertRows", <<idx, idx>>, s.tabs),
                                Note("endInsertRows", <<>>, after)>>,
         conn |-> [s.conn EXCEPT ![t] = @ + 1]]

\* a slip in tabRemoved: the last row is dropped, whatever the index
RemovedListLast(tabs, idx) == RemoveAt(tabs, Len(tabs) - 1)

\* m_tabs.remove(index)
RemovedList(tabs, idx) == RemoveAt(tabs, idx)

\* a slip in tabRemoved: the row is erased before the observers are told
tabRemovedUnbracketed(s, idx) ==
    LET after == RemovedList(s.tabs, idx) IN
    [tabs |-> after,
     notes |-> s.notes \o <<Note("beginRemoveRows", <<idx, idx>>, after),
                            Note("endRemoveRows", <<>>, after)>>,
     conn |-> s.conn]

\* TabModel::tabRemoved
tabRemoved(s, idx) ==
    LET after == RemovedList(s.tabs, idx) IN
    [tabs |-> after,
     notes |-> s.notes \o <<Note("beginRemoveRows", <<idx, idx>>, s.tabs),
                            Note("endRemoveRows", <<>>, after)>>,
     conn |-> s.conn]

\* a slip in tabMoved: the notification is given the index of the splice
MoveDestinationRaw(from, to) == to

\* a slip in tabMoved: the destination is always taken one past the index
MoveDestinationAfter(from, to) == to + 1

\* the destination handed to beginMoveRows
MoveDestination(from, to) == IF to > from THEN to + 1 ELSE to

\* a slip in tabMoved: the destination is taken as an insert-before position
\* in the list before the removal, as the notification's destination is
MovedListBefore(tabs, from, to) ==
    InsertAt(RemoveAt(tabs, from), IF to > from THEN to - 1 ELSE to, tabs[from + 1])

\* a slip in tabMoved: the two rows are exchanged
MovedListSwap(tabs, from, to) ==
    [k \in 1..Len(tabs) |->
        IF k = from + 1 THEN tabs[to + 1]
        ELSE IF k = to + 1 THEN tabs[from + 1] ELSE tabs[k]]

\* m_tabs.insert(to, m_tabs.takeAt(from))
MovedList(tabs, from, to) == InsertAt(RemoveAt(tabs, from), to, tabs[from + 1])

\* TabModel::tabMoved
tabMoved(s, from, to) ==
    LET after == MovedList(s.tabs, from, to) IN
    [tabs |-> after,
     notes |-> s.notes \o
        <<Note("beginMoveRows", <<from, from, MoveDestination(from, to)>>, s.tabs),
          Note("endMoveRows", <<>>, after)>>,
     conn |-> s.conn]

\* a slip in init: the loop stops one tab short
RECURSIVE InitReplayShort(_, _, _)
InitReplayShort(s, w, i) ==
    IF i < Len(w) - 1 THEN InitReplayShort(tabInserted(s, i, w), w, i + 1) ELSE s

\* the loop of TabModel::init: tabInserted(i) for i = from .. tabCount - 1
RECURSIVE InitReplay(_, _, _)
InitReplay(s, w, i) ==
    IF i < Len(w) THEN InitReplay(tabInserted(s, i, w), w, i + 1) ELSE s

\* --------------------------------------------------------- field changes
Signals ==
    {"titleChanged", "iconChanged", "pinnedChanged", "restoredChanged",
     "currentTabChanged", "loadingChanged", "playingChanged", "mutedChanged"}

\* the connections tabInserted makes for one signal, in the order made
SignalRoles(sig) ==
    CASE sig = "titleChanged" -> <<"DisplayRole", "TitleRole">>
      [] sig = "iconChanged" -> <<"DecorationRole", "IconRole">>
      [] sig = "pinnedChanged" -> <<"PinnedRole">>
      [] sig = "restoredChanged" -> <<"RestoredRole">>
      [] sig = "currentTabChanged" -> <<"CurrentTabRole">>
      [] sig = "loadingChanged" -> <<"LoadingRole">>
      [] sig = "playingChanged" -> <<"AudioPlayingRole">>
      [] sig = "mutedChanged" -> <<"AudioMutedRole">>

\* a slip in tabInserted: the lambda is bound to the index of the insertion
\* instead of looking the tab up when the signal arrives
ChangedRowCaptured(tabs, t) ==
    IF ins.tab = t THEN ins.row ELSE tabIndex(tabs, t).row

\* the row emitDataChanged resolves for the tab
ChangedRow(tabs, t) == tabIndex(tabs, t).row

\* the lambda emitDataChanged
emitDataChanged(tabs, t, role) ==
    LET row == ChangedRow(tabs, t) IN Note("dataChanged", <<row, row, role>>, tabs)

\* every slot connected to signal sig of tab t, n insertions of it so far
RECURSIVE SlotsFired(_, _, _, _)
SlotsFired(tabs, t, sig, n) ==
    IF n = 0 THEN <<>>
    ELSE [k \in 1..Len(SignalRoles(sig)) |->
              emitDataChanged(tabs, t, SignalRoles(sig)[k])]
         \o SlotsFired(tabs, t, sig, n - 1)


\* ----------------------------------------------------------- drag payload
\* a slip in mimeData: the row written least significant byte first
Int32BytesLittleEndian(n) ==
    LET m == IF n >= 0 THEN n ELSE (n + 2147483647) + 1
        top == m \div 16777216
    IN  <<m % 256, (m \div 256) % 256, (m \div 65536) % 256,
          IF n >= 0 THEN top ELSE top + 128>>

\* QDataStream << int: four bytes, most significant first (the stream's
\* default byte order), two's complement
Int32Bytes(n) ==
    LET m == IF n >= 0 THEN n ELSE (n + 2147483647) + 1
        top == m \div 16777216
    IN  <<IF n >= 0 THEN top ELSE top + 128,
          (m \div 65536) % 256, (m \div 256) % 256, m % 256>>

\* QDataStream >> int on four bytes
BytesInt32(b) ==
    LET low == (b[1] % 128) * 16777216 + b[2] * 65536 + b[3] * 256 + b[4] IN
    IF b[1] < 128 THEN low ELSE (low - 2147483647) - 1

\* the loop of TabModel::mimeData: the rows of the valid column-0 indexes
RECURSIVE EncodeIndexes(_)
EncodeIndexes(indexes) ==
    IF indexes = <<>> THEN <<>>
    ELSE LET idx == Head(indexes) IN
         (IF idx.valid /\ idx.column = 0 THEN Int32Bytes(idx.row) ELSE <<>>)
         \o EncodeIndexes(Tail(indexes))

\* TabModel::mimeData: the payload under the model's mime type
mimeData(indexes) == [hasFormat |-> TRUE, bytes |-> EncodeIndexes(indexes)]

\* while (!stream.atEnd()) stream >> idx: a read that finds fewer than four
\* bytes consumes them and leaves idx 0
RECURSIVE DecodeRows(_)
DecodeRows(bytes) ==
    IF bytes = <<>> THEN <<>>
    ELSE IF Len(bytes) < 4 THEN <<0>>
    ELSE <<BytesInt32(SubSeq(bytes, 1, 4))>> \o DecodeRows(SubSeq(bytes, 5, Len(bytes)))

\* a slip in dropMimeData: decoding stops at the first row without a tab
RECURSIVE ResolveTabsStop(_, _)
ResolveTabsStop(tabs, rows) ==
    IF rows = <<>> THEN <<>>
    ELSE LET t == tab(tabs, index(tabs, Head(rows))) IN
         IF t # NoTab THEN <<t>> \o ResolveTabsStop(tabs, Tail(rows)) ELSE <<>>

\* the decoding loop of TabModel::dropMimeData: the tabs the rows resolve to
RECURSIVE ResolveTabs(_, _)
ResolveTabs(tabs, rows) ==
    IF rows = <<>> THEN <<>>
    ELSE LET t == tab(tabs, index(tabs, Head(rows))) IN
         (IF t # NoTab THEN <<t>> ELSE <<>>) \o ResolveTabs(tabs, Tail(rows))

\* a slip in dropMimeData: a drop onto an item is not turned away
DropRejectedNoParent(window, payload, parentValid, column) ==
    ~window \/ ~payload.hasFormat \/ column # 0

\* the gates of TabModel::dropMimeData that reject a drop
DropRejected(window, payload, parentValid, column) ==
    ~window \/ ~payload.hasFormat \/ parentValid \/ column # 0

\* a slip in dropMimeData: the drop row moves on after every tab
DropNextRowAlways(row, from) == row + 1

\* const int to = row >= from ? row - 1 : row++
DropTo(row, from) == IF row >= from THEN row - 1 ELSE row
DropNextRow(row, from) == IF row >= from THEN row ELSE row + 1

\* WebTab::tabIndex: the tab's index in the container
WebTabIndex(w, t) == IndexOf(w, t)

\* the container's own reorder: the tab at from ends at index to
ContainerMoved(w, from, to) == InsertAt(RemoveAt(w, from), to, w[from + 1])

\* TabWidget::moveTab accepts a move between two different existing indexes
MoveAccepted(w, from, to) ==
    /\ from >= 0 /\ from < Len(w)
    /\ to >= 0 /\ to < Len(w)
    /\ from # to

\* the reorder loop of TabModel::dropMimeData from its i-th tab on;
\* d = [w, s, row, reqs]: the container's order, the model, the running drop
\* row and the requests made.  An accepted moveTab reorders the container,
\* which emits tabMoved into the model before moveTab returns.
RECURSIVE DropLoop(_, _, _)
DropLoop(d, resolved, i) ==
    IF i > Len(resolved) THEN d
    ELSE LET from == WebTabIndex(d.w, resolved[i])
             to == DropTo(d.row, from)
             ok == MoveAccepted(d.w, from, to)
         IN  DropLoop([w |-> IF ok THEN ContainerMoved(d.w, from, to) ELSE d.w,
                       s |-> IF ok THEN tabMoved(d.s, from, to) ELSE d.s,
                       row |-> DropNextRow(d.row, from),
                       reqs |-> Append(d.reqs, <<from, to>>)],
                      resolved, i + 1)

\* TabModel::dropMimeData on the model m = [window, tabs, conn] with the
\* container in order w: what it returns, the tabs it resolved, the requests
\* it made, and the container and the model after it
dropMimeData(m, w, payload, action, row, column, parentValid) ==
    LET same == [w |-> w, reqs |-> <<>>,
                 s |-> [tabs |-> m.tabs, notes |-> <<>>, conn |-> m.conn]]
        resolved == ResolveTabs(m.tabs, DecodeRows(payload.bytes))
        d == DropLoop([w |-> w, s |-> same.s, row |-> row, reqs |-> <<>>], resolved, 1)
    IN  IF action = "IgnoreAction"
        THEN [ret |-> TRUE, resolved |-> <<>>] @@ same
        ELSE IF DropRejected(m.window, payload, parentValid, column)
        THEN [ret |-> FALSE, resolved |-> <<>>] @@ same
        ELSE IF resolved = <<>>
        THEN [ret |-> FALSE, resolved |-> resolved] @@ same
        ELSE [ret |-> TRUE, resolved |-> resolved, w |-> d.w, reqs |-> d.reqs, s |-> d.s]

\* ------------------------------------------------------------------ state
NoResult == <<"void">>

NoMime ==
    [active |-> FALSE, data |-> [hasFormat |-> FALSE, bytes |-> <<>>],
     indexes |-> <<>>, stale |-> FALSE]

Op(name, args) == [op |-> name, args |-> args, pre |-> m_tabs]

Idle == lastOp.op = "idle"

\* what an operation that is no drop leaves of the drop's outputs
NoDrop == moveReqs' = <<>> /\ dropTabs' = <<>>

\* a change of the list makes the rows of the drag in progress stale
Staled == IF mime.active THEN [mime EXCEPT !.stale = TRUE] ELSE mime

Range(s) == {s[k] : k \in 1..Len(s)}

\* the windows a model can be constructed for: any order of distinct tabs
Windows ==
    {w \in UNION {[1..n -> Tabs] : n \in 0..MaxTabs} :
        \A j, k \in 1..Len(w) : j # k => w[j] # w[k]}

\* TabModel::TabModel and TabModel::init
Constructed(w) ==
    InitReplay([tabs |-> <<>>, notes |-> <<>>, conn |-> [t \in Tabs |-> 0]], w, 0)

Init ==
    \E w \in Windows :
        /\ wtabs = w
        /\ m_window = TRUE
        /\ m_tabs = Constructed(w).tabs
        /\ conn = Constructed(w).conn
        /\ ins = NoIns
        /\ undo = NoUndo
        /\ notes = Constructed(w).notes
        /\ fault = FALSE
        /\ lastOp = [op |-> "init", args |-> <<>>, pre |-> <<>>]
        /\ result = NoResult
        /\ mime = NoMime
        /\ moveReqs = <<>>
        /\ dropTabs = <<>>

\* the operation is over and the UI thread is back in the event loop
Return ==
    /\ ~Idle /\ ~fault
    /\ lastOp' = [op |-> "idle", args |-> <<>>, pre |-> <<>>]
    /\ notes' = <<>>
    /\ result' = NoResult
    /\ NoDrop
    /\ undo' = IF undo.done THEN NoUndo ELSE undo
    /\ UNCHANGED <<m_window, m_tabs, wtabs, conn, ins, mime, fault>>

\* the model's part of the state after a handler ran on it
Handled(s) ==
    /\ m_tabs' = s.tabs
    /\ notes' = s.notes
    /\ conn' = s.conn

Fresh == [tabs |-> m_tabs, notes |-> <<>>, conn |-> conn]

\* the container inserts tab t at index i and emits tabInserted(i)
InsertTab(t, i) ==
    /\ Idle /\ m_window
    /\ t \notin Range(wtabs)
    /\ conn[t] < MaxConn
    /\ i \in 0..Len(wtabs)
    /\ wtabs' = InsertAt(wtabs, i, t)
    /\ Handled(tabInserted(Fresh, i, wtabs'))
    /\ ins' = [tab |-> t, row |-> i]
    /\ undo' = [active |-> TRUE, row |-> i, pre |-> m_tabs, done |-> FALSE]
    /\ lastOp' = Op("tabInserted", <<i>>)
    /\ mime' = Staled
    /\ result' = NoResult
    /\ NoDrop
    /\ UNCHANGED <<m_window, fault>>

\* the container takes the tab at index i out and emits tabRemoved(i); the
\* tab is deleted (closed) or lives on in another window (detached)
RemoveTab(i, closed) ==
    /\ Idle /\ m_window
    /\ i \in 0..(Len(wtabs) - 1)
    /\ wtabs' = RemoveAt(wtabs, i)
    /\ LET s == tabRemoved(Fresh, i) IN
        /\ m_tabs' = s.tabs
        /\ notes' = s.notes
        /\ conn' = IF closed THEN [s.conn EXCEPT ![wtabs[i + 1]] = 0] ELSE s.conn
    /\ ins' = IF ins.tab = wtabs[i + 1] THEN NoIns ELSE ins
    /\ undo' = IF undo.active /\ undo.row = i
               THEN [undo EXCEPT !.done = TRUE] ELSE NoUndo
    /\ lastOp' = Op("tabRemoved", <<i>>)
    /\ mime' = Staled
    /\ result' = NoResult
    /\ NoDrop
    /\ UNCHANGED <<m_window, fault>>

\* the container moves the tab at from to to and emits tabMoved(from, to)
MoveTab(from, to) ==
    /\ Idle /\ m_window
    /\ from \in 0..(Len(wtabs) - 1)
    /\ to \in 0..(Len(wtabs) - 1)
    /\ wtabs' = ContainerMoved(wtabs, from, to)
    /\ Handled(tabMoved(Fresh, from, to))
    /\ lastOp' = Op("tabMoved", <<from, to>>)
    /\ UNCHANGED ins
    /\ undo' = NoUndo
    /\ mime' = Staled
    /\ result' = NoResult
    /\ NoDrop
    /\ UNCHANGED <<m_window, fault>>

\* the lambda connected to the window's destroyed signal
WindowDestroyed ==
    /\ Idle /\ m_window
    /\ m_window' = FALSE
    /\ m_tabs' = <<>>
    /\ notes' = <<Note("beginResetModel", <<>>, m_tabs), Note("endResetModel", <<>>, <<>>)>>
    /\ wtabs' = <<>>
    /\ lastOp' = Op("destroyed", <<>>)
    /\ mime' = Staled
    /\ result' = NoResult
    /\ NoDrop
    /\ ins' = NoIns
    /\ undo' = NoUndo
    /\ UNCHANGED <<conn, fault>>

\* indices of a structural signal that still arrives after the window is gone
LateIdx == 0..1

\* tabInserted(i) with m_window null: m_window->weView(i) dereferences the
\* null pointer.  The read traps, or it yields some pointer g and the handler
\* goes on to bracket and insert it.
LateTabInserted(i) ==
    /\ Idle /\ ~m_window
    /\ fault' = TRUE
    /\ \/ m_tabs' = m_tabs /\ notes' = <<>>
       \/ \E g \in Tabs :
            /\ m_tabs' = InsertedList(m_tabs, 0, g)
            /\ notes' = <<Note("beginInsertRows", <<i, i>>, m_tabs),
                          Note("endInsertRows", <<>>, m_tabs')>>
    /\ lastOp' = Op("tabInserted", <<i>>)
    /\ result' = NoResult
    /\ NoDrop
    /\ undo' = NoUndo
    /\ UNCHANGED <<m_window, wtabs, conn, ins, mime>>

\* tabRemoved(i) with m_window null: the list is empty, so beginRemoveRows is
\* called for a row that does not exist (an assertion in a debug build of the
\* toolkit, a notification otherwise) and m_tabs.remove(i) is out of range.
LateTabRemoved(i) ==
    /\ Idle /\ ~m_window
    /\ fault' = TRUE
    /\ m_tabs' = m_tabs
    /\ notes' \in {<<>>,
                   <<Note("beginRemoveRows", <<i, i>>, m_tabs)>>,
                   <<Note("beginRemoveRows", <<i, i>>, m_tabs),
                     Note("endRemoveRows", <<>>, m_tabs)>>}
    /\ lastOp' = Op("tabRemoved", <<i>>)
    /\ result' = NoResult
    /\ NoDrop
    /\ undo' = NoUndo
    /\ UNCHANGED <<m_window, wtabs, conn, ins, mime>>

\* tabMoved(from, to) with m_window null: m_tabs.takeAt(from) on the empty list
LateTabMoved(from, to) ==
    /\ Idle /\ ~m_window
    /\ fault' = TRUE
    /\ m_tabs' = m_tabs
    /\ notes' \in {<<>>,
                   <<Note("beginMoveRows", <<from, from, MoveDestination(from, to)>>, m_tabs)>>,
                   <<Note("beginMoveRows", <<from, from, MoveDestination(from, to)>>, m_tabs),
                     Note("endMoveRows", <<>>, m_tabs)>>}
    /\ lastOp' = Op("tabMoved", <<from, to>>)
    /\ result' = NoResult
    /\ NoDrop
    /\ undo' = NoUndo
    /\ UNCHANGED <<m_window, wtabs, conn, ins, mime>>

\* the indexes a view can hold: the invalid one, the rows, and rows past the
\* end that an index made before a removal still names
ViewIndexes ==
    {InvalidIndex} \cup
    {[valid |-> TRUE, row |-> r, column |-> 0] : r \in 0..(Len(m_tabs) + 1)}

\* a view calls data(idx, role)
DataQuery(idx, role) ==
    /\ Idle
    /\ result' = data(m_tabs, idx, role)
    /\ lastOp' = Op("data", <<idx.row, role>>)
    /\ notes' = <<>>
    /\ NoDrop
    /\ undo' = NoUndo
    /\ UNCHANGED <<m_window, m_tabs, wtabs, conn, ins, fault, mime>>

\* a connected tab emits one of its change signals
FieldChanged(t, sig) ==
    /\ Idle
    /\ conn[t] > 0
    /\ notes' = SlotsFired(m_tabs, t, sig, conn[t])
    /\ lastOp' = Op(sig, <<t>>)
    /\ result' = NoResult
    /\ NoDrop
    /\ undo' = NoUndo
    /\ UNCHANGED <<m_window, m_tabs, wtabs, conn, ins, fault, mime>>

\* ---------------------------------------------------------- drag and drop
SeqsUpTo(S, n) == UNION {[1..k -> S] : k \in 0..n}

\* what a view selects: distinct rows of the list, in the order selected; an
\* invalid index may be among them
Selections ==
    LET S == {InvalidIndex} \cup {index(m_tabs, r) : r \in 0..(Len(m_tabs) - 1)} IN
    {sel \in SeqsUpTo(S, MaxSel) : \A j, k \in 1..Len(sel) : j # k => sel[j] # sel[k]}

\* a view starts a drag: mimeData(indexes)
MimeData(indexes) ==
    /\ Idle
    /\ result' = mimeData(indexes)
    /\ mime' = [active |-> TRUE, data |-> result', indexes |-> indexes, stale |-> FALSE]
    /\ lastOp' = Op("mimeData", indexes)
    /\ notes' = <<>>
    /\ NoDrop
    /\ undo' = NoUndo
    /\ UNCHANGED <<m_window, m_tabs, wtabs, conn, ins, fault>>

RECURSIVE EncodeRows(_)
EncodeRows(rows) ==
    IF rows = <<>> THEN <<>> ELSE Int32Bytes(Head(rows)) \o EncodeRows(Tail(rows))

\* rows a payload written elsewhere may name
ForeignRows == -1..MaxTabs

\* payloads this model did not write: none under the model's mime type, rows
\* in the same encoding, and a payload cut short by a byte
ForeignPayloads ==
    {[hasFormat |-> FALSE, bytes |-> <<>>]}
    \cup {[hasFormat |-> TRUE, bytes |-> EncodeRows(rows)] :
            rows \in SeqsUpTo(ForeignRows, MaxForeign)}
    \cup {[hasFormat |-> TRUE, bytes |-> SubSeq(Int32Bytes(r), 1, 3)] : r \in ForeignRows}

\* the payload a drop brings: the one of the drag in progress, else a foreign one
DropPayloads == IF mime.active THEN {mime.data} ELSE ForeignPayloads

\* where a drop lands: between two rows or after the last (row, column 0, the
\* root), on the viewport (-1, -1, the root), on an item (-1, -1, the item),
\* or where only a tree has places (a child row of an item, another column)
DropTargets ==
    {[row |-> r, column |-> 0, parentValid |-> FALSE] : r \in -1..Len(m_tabs)}
    \cup {[row |-> -1, column |-> -1, parentValid |-> FALSE],
          [row |-> -1, column |-> -1, parentValid |-> TRUE],
          [row |-> 0, column |-> 0, parentValid |-> TRUE],
          [row |-> 0, column |-> 1, parentValid |-> FALSE]}

\* a drop is a move to any of the targets, or is ignored at some of them
DropCalls ==
    {[action |-> "MoveAction", target |-> tg] : tg \in DropTargets}
    \cup {[action |-> "IgnoreAction", target |-> tg] :
            tg \in {tg \in DropTargets : tg.row = 0 \/ tg.parentValid}}

\* a view delivers a drop: dropMimeData(data, action, row, column, parent)
DropMimeData(payload, action, target) ==
    /\ Idle
    /\ \E r \in {dropMimeData([window |-> m_window, tabs |-> m_tabs, conn |-> conn],
                               wtabs, payload, action,
                               target.row, target.column, target.parentValid)} :
           /\ result' = r.ret
           /\ dropTabs' = r.resolved
           /\ moveReqs' = r.reqs
           /\ wtabs' = r.w
           /\ Handled(r.s)
    /\ lastOp' = Op("dropMimeData",
                    [payload |-> payload, action |-> action, target |-> target,
                     drag |-> mime])
    /\ mime' = NoMime
    /\ undo' = NoUndo
    /\ UNCHANGED <<m_window, ins, fault>>

\* ---------------------------------------------------------- specifications
\* the life of the model beside its window: structural signals, the window's
\* end and what arrives after it, field queries and field changes
Next ==
    \/ Return
    \/ \E t \in Tabs, i \in 0..MaxTabs : InsertTab(t, i)
    \/ \E i \in 0..(MaxTabs - 1), closed \in BOOLEAN : RemoveTab(i, closed)
    \/ \E from, to \in 0..(MaxTabs - 1) : MoveTab(from, to)
    \/ WindowDestroyed
    \/ \E i \in LateIdx : LateTabInserted(i)
    \/ \E i \in LateIdx : LateTabRemoved(i)
    \/ \E from, to \in LateIdx : LateTabMoved(from, to)
    \/ \E idx \in ViewIndexes, role \in Roles \cup OtherRoles : DataQuery(idx, role)
    \/ \E t \in Tabs, sig \in Signals : FieldChanged(t, sig)

Spec == Init /\ [][Next]_vars

\* drags and drops on the model, with tabs closing and the window ending
\* while a drag is in progress
NextDrop ==
    \/ Return
    \/ \E indexes \in Selections : MimeData(indexes)
    \/ \E payload \in DropPayloads, c \in DropCalls :
          DropMimeData(payload, c.action, c.target)
    \/ \E i \in 0..(MaxTabs - 1) : RemoveTab(i, TRUE)
    \/ WindowDestroyed

SpecDrop == Init /\ [][NextDrop]_vars

\* ------------------------------------------------------------- properties
Structural == {"tabInserted", "tabRemoved", "tabMoved"}

\* the 0-based row of the list at which tab t is
RowOf(tabs, t) == CHOOSE r \in 0..(Len(tabs) - 1) : tabs[r + 1] = t

\* the tabs of list tabs at the rows, in the order of the rows
TabsAt(tabs, rows) == [k \in 1..Len(rows) |-> tabs[rows[k] + 1]]

\* C1: after each tabInserted, tabRemoved or tabMoved delivered beside a live
\* window, the model's row count is the container's tab count and every row
\* holds the tab the container has at that index.
C1_MirrorsContainer ==
    (m_window /\ lastOp.op \in Structural) =>
        /\ rowCount(m_tabs, FALSE) = Len(wtabs)
        /\ \A r \in 1..Len(wtabs) : m_tabs[r] = wtabs[r]

C1_Witness ==
    /\ m_window /\ lastOp.op = "tabRemoved" /\ lastOp.args[1] = 0
    /\ Len(lastOp.pre) = 3 /\ m_tabs = wtabs /\ Len(m_tabs) = 2

\* C2: once the window is destroyed the row count is 0, and a structural
\* signal delivered afterwards emits nothing, leaves the list alone and runs
\* into no undefined behaviour.
C2_LateEventsAreNoOps ==
    ~m_window =>
        /\ rowCount(m_tabs, FALSE) = 0
        /\ lastOp.op \in Structural =>
              notes = <<>> /\ m_tabs = lastOp.pre /\ ~fault

\* C3 as stated: after tabMoved(from, to) with to > from, the tab that was at
\* row from is at row to - 1.
C3_MovedTabAtRowBeforeTo ==
    (m_window /\ lastOp.op = "tabMoved" /\ lastOp.args[2] > lastOp.args[1]) =>
        m_tabs[(lastOp.args[2] - 1) + 1] = lastOp.pre[lastOp.args[1] + 1]

\* C3 amended: after tabMoved(from, to) with to > from, the tab that was at
\* row from is at row to.
C3_MovedTabAtRowTo ==
    (m_window /\ lastOp.op = "tabMoved" /\ lastOp.args[2] > lastOp.args[1]) =>
        m_tabs[lastOp.args[2] + 1] = lastOp.pre[lastOp.args[1] + 1]

C3_Witness ==
    /\ m_window /\ lastOp.op = "tabMoved"
    /\ lastOp.args[1] = 1 /\ lastOp.args[2] = 3
    /\ m_tabs[4] = lastOp.pre[2]

\* C4: tabMoved(from, to) keeps the row count, leaves the moved tab at index
\* to and keeps the order of all the other tabs; [A,B,C,D] with move(0,3)
\* becomes [B,C,D,A].
C4_MoveIsSplice ==
    (m_window /\ lastOp.op = "tabMoved") =>
        LET from == lastOp.args[1]
            to == lastOp.args[2]
        IN  /\ Len(m_tabs) = Len(lastOp.pre)
            /\ m_tabs[to + 1] = lastOp.pre[from + 1]
            /\ RemoveAt(m_tabs, to) = RemoveAt(lastOp.pre, from)
            /\ (lastOp.pre = <<1, 2, 3, 4>> /\ from = 0 /\ to = 3)
                  => m_tabs = <<2, 3, 4, 1>>

C4_Witness ==
    /\ m_window /\ lastOp.op = "tabMoved" /\ lastOp.args = <<0, 3>>
    /\ lastOp.pre = <<1, 2, 3, 4>> /\ m_tabs = <<2, 3, 4, 1>>

\* a drop that is a move and that no gate turns away
DropDecoded ==
    /\ lastOp.op = "dropMimeData"
    /\ lastOp.args.action # "IgnoreAction"
    /\ m_window
    /\ lastOp.args.payload.hasFormat
    /\ ~lastOp.args.target.parentValid
    /\ lastOp.args.target.column = 0

\* the decoded rows of the last drop that are rows of the list it met
RowsInBounds ==
    LET InBounds(r) == r >= 0 /\ r < Len(lastOp.pre) IN
    SelectSeq(DecodeRows(lastOp.args.payload.bytes), InBounds)

\* C5: a drop resolves exactly the decoded rows that are inside the list, in
\* order, and goes on with them: one move request each and success.  When
\* none is inside (or the payload is empty) it returns failure, requests no
\* move and leaves the list as it was.
C5_OutOfBoundsRowsSkipped ==
    DropDecoded =>
        /\ dropTabs = TabsAt(lastOp.pre, RowsInBounds)
        /\ RowsInBounds # <<>> =>
              result = TRUE /\ Len(moveReqs) = Len(RowsInBounds)
        /\ RowsInBounds = <<>> =>
              /\ result = FALSE
              /\ moveReqs = <<>>
              /\ notes = <<>>
              /\ m_tabs = lastOp.pre

C5_Witness ==
    /\ DropDecoded
    /\ DecodeRows(lastOp.args.payload.bytes) = <<Len(lastOp.pre), 0>>
    /\ Len(lastOp.pre) = 2
    /\ dropTabs = <<lastOp.pre[1]>>
    /\ result = TRUE

\* C6: an ignored drop returns success and requests no move, whatever the
\* window, the payload and the target; any other drop with no window, a
\* payload without the format, an item as parent or a column other than 0
\* returns failure before anything is decoded, requests no move and leaves
\* the list as it was.
C6_DropGates ==
    lastOp.op = "dropMimeData" =>
        /\ lastOp.args.action = "IgnoreAction" =>
              /\ result = TRUE
              /\ moveReqs = <<>>
              /\ notes = <<>>
              /\ m_tabs = lastOp.pre
        /\ ( /\ lastOp.args.action # "IgnoreAction"
             /\ \/ ~m_window
                \/ ~lastOp.args.payload.hasFormat
                \/ lastOp.args.target.parentValid
                \/ lastOp.args.target.column # 0 ) =>
              /\ result = FALSE
              /\ moveReqs = <<>>
              /\ dropTabs = <<>>
              /\ notes = <<>>
              /\ m_tabs = lastOp.pre

C6_Witness ==
    /\ lastOp.op = "dropMimeData"
    /\ lastOp.args.action = "MoveAction"
    /\ m_window
    /\ lastOp.args.drag.active /\ ~lastOp.args.drag.stale
    /\ Len(lastOp.args.drag.indexes) = 2
    /\ lastOp.args.drag.indexes[1].valid /\ lastOp.args.drag.indexes[2].valid
    /\ lastOp.args.target = [row |-> 0, column |-> 0, parentValid |-> TRUE]
    /\ result = FALSE

\* the attribute the field table gives for a role
C7_Attribute(role) ==
    CASE role = "WebTabRole" -> "webTab"
      [] role \in {"TitleRole", "DisplayRole"} -> "title"
      [] role \in {"IconRole", "DecorationRole"} -> "icon"
      [] role = "PinnedRole" -> "isPinned"
      [] role = "RestoredRole" -> "isRestored"
      [] role = "CurrentTabRole" -> "isCurrentTab"
      [] role = "LoadingRole" -> "isLoading"
      [] role = "AudioPlayingRole" -> "isPlaying"
      [] role = "AudioMutedRole" -> "isMuted"

\* C7: data(row, role) never faults; it returns no value for a row outside
\* [0, rowCount - 1] and for a role outside the recognised set, and the
\* role's attribute of the tab stored at the row otherwise.
C7_DataTotal ==
    lastOp.op = "data" =>
        LET row == lastOp.args[1]
            role == lastOp.args[2]
            inside == row >= 0 /\ row <= rowCount(m_tabs, FALSE) - 1
        IN  /\ ~fault
            /\ (~inside \/ role \notin Roles) => result = NoValue
            /\ (inside /\ role \in Roles) =>
                  result = <<C7_Attribute(role), m_tabs[row + 1]>>

C7_Witness ==
    /\ lastOp.op = "data"
    /\ Len(m_tabs) = 2
    /\ lastOp.args = <<2, "TitleRole">>
    /\ result = NoValue

\* the rows of the valid column-0 indexes among the indexes, in their order
SelectedRows(indexes) ==
    LET Kept(idx) == idx.valid /\ idx.column = 0
        kept == SelectSeq(indexes, Kept)
    IN  [k \in 1..Len(kept) |-> kept[k].row]

\* C8: a payload written by mimeData and dropped while the list is still the
\* one it was written from decodes to the selected rows in selection order,
\* and the drop resolves exactly the tabs at those rows, in that order.
C8_PayloadRoundTrip ==
    (DropDecoded /\ lastOp.args.drag.active /\ ~lastOp.args.drag.stale) =>
        /\ DecodeRows(lastOp.args.payload.bytes) = SelectedRows(lastOp.args.drag.indexes)
        /\ dropTabs = TabsAt(lastOp.pre, SelectedRows(lastOp.args.drag.indexes))

C8_Witness ==
    /\ DropDecoded /\ lastOp.args.drag.active /\ ~lastOp.args.drag.stale
    /\ SelectedRows(lastOp.args.drag.indexes) = <<2, 0, 3>>
    /\ dropTabs = <<lastOp.pre[3], lastOp.pre[1], lastOp.pre[4]>>
    /\ result = TRUE

\* C9: a change signal of a tab that is in the list emits change
\* notifications, each for the one row the tab is at when the signal
\* arrives, wherever it was inserted.
C9_ChangeNamesCurrentRow ==
    (lastOp.op \in Signals /\ lastOp.args[1] \in Range(m_tabs)) =>
        /\ notes # <<>>
        /\ \A k \in 1..Len(notes) :
              /\ notes[k].sig = "dataChanged"
              /\ notes[k].args[1] = RowOf(m_tabs, lastOp.args[1])
              /\ notes[k].args[2] = RowOf(m_tabs, lastOp.args[1])

C9_Witness ==
    /\ lastOp.op = "titleChanged"
    /\ lastOp.args[1] = ins.tab
    /\ ins.row = 0
    /\ RowOf(m_tabs, ins.tab) = 2
    /\ Len(notes) = 2
    /\ notes[1].args = <<2, 2, "DisplayRole">>
    /\ notes[2].args = <<2, 2, "TitleRole">>

\* C10: right after construction the list has one row per tab of the window
\* and row i holds the window's tab i, each put there by tabInserted(i), for
\* i ascending from 0.
C10_ConstructedFromWindow ==
    lastOp.op = "init" =>
        /\ Len(m_tabs) = Len(wtabs)
        /\ \A i \in 1..Len(wtabs) : m_tabs[i] = wtabs[i]
        /\ Len(notes) = 2 * Len(wtabs)
        /\ \A i \in 1..Len(wtabs) :
              /\ notes[2 * i - 1].sig = "beginInsertRows"
              /\ notes[2 * i - 1].args = <<i - 1, i - 1>>
              /\ notes[2 * i].sig = "endInsertRows"
              /\ conn[wtabs[i]] = 1

C10_Witness ==
    /\ lastOp.op = "init"
    /\ wtabs = <<3, 1, 4, 2>>
    /\ m_tabs = <<3, 1, 4, 2>>

\* C11: tabRemoved(i) takes one row off the count, leaves the rows below i as
\* they were and moves every row above i down by one; when it comes right
\* after tabInserted(i), the list is again what it was before that insertion.
C11_RemoveShiftsAndUndoesInsert ==
    (m_window /\ lastOp.op = "tabRemoved") =>
        LET i == lastOp.args[1] IN
        /\ rowCount(m_tabs, FALSE) = Len(lastOp.pre) - 1
        /\ \A r \in 0..(i - 1) : m_tabs[r + 1] = lastOp.pre[r + 1]
        /\ \A r \in (i + 1)..(Len(lastOp.pre) - 1) : m_tabs[r] = lastOp.pre[r + 1]
        /\ undo.done => m_tabs = undo.pre

C11_Witness ==
    /\ m_window /\ lastOp.op = "tabRemoved" /\ lastOp.args[1] = 1
    /\ undo.done /\ Len(undo.pre) = 3
    /\ Len(lastOp.pre) = 4 /\ m_tabs = undo.pre

\* a drop that went through to the reorder loop
DropDone == DropDecoded /\ result = TRUE

\* the drop row of the last drop is a place between, before or after the rows
DropRowInList ==
    lastOp.args.target.row >= 0 /\ lastOp.args.target.row <= Len(lastOp.pre)

\* the tabs of the list that are not among the dragged ones, in list order
NotDragged(tabs, dragged) ==
    LET Stays(t) == t \notin Range(dragged) IN SelectSeq(tabs, Stays)

\* C12: a drop of one tab, at row f, to drop row r in [0, rowCount] leaves
\* the list as taking the tab out and putting it back right before the tab
\* that was at row r (at the end for r = rowCount) leaves it; for r = f and
\* for r = f + 1 the order is as before.
C12_SingleDropIsReinsertion ==
    (DropDone /\ DropRowInList /\ Len(dropTabs) = 1) =>
        LET t == dropTabs[1]
            f == RowOf(lastOp.pre, t)
            r == lastOp.args.target.row
            rest == RemoveAt(lastOp.pre, f)
        IN  /\ (r = f \/ r = f + 1) => m_tabs = lastOp.pre
            /\ r = Len(lastOp.pre) => m_tabs = Append(rest, t)
            /\ (r < Len(lastOp.pre) /\ r # f) =>
                  m_tabs = InsertAt(rest, RowOf(rest, lastOp.pre[r + 1]), t)

\* C13: a drop of two different tabs to a drop row in [0, rowCount] leaves
\* the two at adjacent rows, the first of the payload right before the
\* second, and the other tabs in the order they had.
C13_PairDropKeepsOrder ==
    (DropDone /\ DropRowInList /\ Len(dropTabs) = 2 /\ dropTabs[1] # dropTabs[2]) =>
        /\ RowOf(m_tabs, dropTabs[2]) = RowOf(m_tabs, dropTabs[1]) + 1
        /\ NotDragged(m_tabs, dropTabs) = NotDragged(lastOp.pre, dropTabs)

\* the list once the container has carried out a request: the tab at from is
\* at to and the tabs between moved one place towards from; a request that
\* names no two different rows leaves it alone
C14_Applied(tabs, from, to) ==
    IF from < 0 \/ from >= Len(tabs) \/ to < 0 \/ to >= Len(tabs) \/ from = to
    THEN tabs
    ELSE [k \in 1..Len(tabs) |->
            IF k = to + 1 THEN tabs[from + 1]
            ELSE IF from < to /\ k > from /\ k <= to THEN tabs[k + 1]
            ELSE IF to < from /\ k > to + 1 /\ k <= from + 1 THEN tabs[k - 1]
            ELSE tabs[k]]

\* the requests C14 describes for the dragged tabs, from the list and the
\* running drop row before the first of them
RECURSIVE C14_Requests(_, _, _)
C14_Requests(tabs, row, dragged) ==
    IF dragged = <<>> THEN <<>>
    ELSE LET from == RowOf(tabs, Head(dragged)) IN
         IF row >= from
         THEN <<(<<from, row - 1>>)>>
              \o C14_Requests(C14_Applied(tabs, from, row - 1), row, Tail(dragged))
         ELSE <<(<<from, row>>)>>
              \o C14_Requests(C14_Applied(tabs, from, row), row + 1, Tail(dragged))

\* C14: a drop that succeeds makes one move request per resolved tab, in
\* payload order; the source is the row the tab is at after the earlier
\* requests of the drop took effect, the destination is the running drop row
\* less one when that row is at or past the source and the running drop row
\* otherwise, and only in the second case the running drop row goes up by one.
C14_OneRequestPerTab ==
    DropDone =>
        /\ Len(moveReqs) = Len(dropTabs)
        /\ moveReqs = C14_Requests(lastOp.pre, lastOp.args.target.row, dropTabs)

C14_Witness ==
    /\ DropDone
    /\ lastOp.pre = <<1, 2, 3, 4>>
    /\ dropTabs = <<4, 1, 3>>
    /\ lastOp.args.target.row = 1
    /\ moveReqs = <<(<<3, 1>>), (<<0, 1>>), (<<3, 2>>)>>
    /\ m_tabs = <<4, 1, 3, 2>>

\* C18: every moveTab(from, to) a drop requests, for a drop row in
\* [0, rowCount], names two indexes of the container, both in
\* [0, tabCount - 1].
C18_RequestsInRange ==
    (DropDone /\ DropRowInList) =>
        \A k \in 1..Len(moveReqs) :
            /\ moveReqs[k][1] >= 0 /\ moveReqs[k][1] <= Len(lastOp.pre) - 1
            /\ moveReqs[k][2] >= 0 /\ moveReqs[k][2] <= Len(lastOp.pre) - 1

\* C15: tabMoved(from, to) tells the observers a move of row from to the
\* destination to + 1 when to > from and to otherwise, then splices the list
\* with the index to itself, then tells them the move is complete.
C15_MoveNotification ==
    (m_window /\ lastOp.op = "tabMoved") =>
        LET from == lastOp.args[1]
            to == lastOp.args[2]
        IN  /\ Len(notes) = 2
            /\ notes[1].sig = "beginMoveRows"
            /\ notes[1].args = <<from, from, IF to > from THEN to + 1 ELSE to>>
            /\ notes[1].tabs = lastOp.pre
            /\ notes[2].sig = "endMoveRows"
            /\ notes[2].tabs = m_tabs
            /\ m_tabs[to + 1] = lastOp.pre[from + 1]
            /\ RemoveAt(m_tabs, to) = RemoveAt(lastOp.pre, from)

C15_Witness ==
    /\ m_window /\ lastOp.op = "tabMoved" /\ lastOp.args = <<0, 2>>
    /\ Len(lastOp.pre) = 4
    /\ notes[1].args = <<0, 0, 3>>
    /\ m_tabs[3] = lastOp.pre[1]

\* the structural notifications among the notes, in order
StructuralNotes ==
    LET Brackets(n) == n.sig # "dataChanged" IN SelectSeq(notes, Brackets)

\* the end notification that closes a begin notification
C16_End(sig) ==
    CASE sig = "beginInsertRows" -> "endInsertRows"
      [] sig = "beginRemoveRows" -> "endRemoveRows"
      [] sig = "beginMoveRows" -> "endMoveRows"
      [] sig = "beginResetModel" -> "endResetModel"
      [] OTHER -> "none"

\* between the begin b and the end e the list underwent the one mutation b
\* announces
C16_OneMutation(b, e) ==
    CASE b.sig = "beginInsertRows" ->
            /\ b.args[1] = b.args[2]
            /\ Len(e.tabs) = Len(b.tabs) + 1
            /\ RemoveAt(e.tabs, b.args[1]) = b.tabs
      [] b.sig = "beginRemoveRows" ->
            /\ b.args[1] = b.args[2]
            /\ b.args[1] >= 0 /\ b.args[1] < Len(b.tabs)
            /\ e.tabs = RemoveAt(b.tabs, b.args[1])
      [] b.sig = "beginMoveRows" ->
            /\ b.args[1] = b.args[2]
            /\ Len(e.tabs) = Len(b.tabs)
            /\ \E to \in 0..(Len(b.tabs) - 1) :
                  /\ e.tabs[to + 1] = b.tabs[b.args[1] + 1]
                  /\ RemoveAt(e.tabs, to) = RemoveAt(b.tabs, b.args[1])
      [] b.sig = "beginResetModel" -> e.tabs = <<>>
      [] OTHER -> FALSE

\* C16: the notifications of every event that ran to its end are begin/end
\* pairs one after the other, each end matching its begin; the list changes
\* by exactly the announced mutation between a begin and its end and not at
\* all outside a pair; a structural signal makes one pair, a drop at most
\* one per move request, the construction one per tab of the window.
C16_Bracketed ==
    ~fault =>
        LET ns == StructuralNotes
            pairs == Len(ns) \div 2
        IN  /\ Len(ns) = 2 * pairs
            /\ \A k \in 1..pairs :
                  /\ ns[2 * k].sig = C16_End(ns[2 * k - 1].sig)
                  /\ ns[2 * k - 1].tabs = IF k = 1 THEN lastOp.pre ELSE ns[2 * k - 2].tabs
                  /\ C16_OneMutation(ns[2 * k - 1], ns[2 * k])
            /\ pairs > 0 => ns[2 * pairs].tabs = m_tabs
            /\ pairs = 0 => m_tabs = lastOp.pre \/ lastOp.op = "idle"
            /\ lastOp.op \in Structural => pairs = 1
            /\ lastOp.op = "dropMimeData" => pairs <= Len(moveReqs)
            /\ lastOp.op = "init" => pairs = Len(wtabs)

C16_Witness ==
    /\ lastOp.op = "dropMimeData"
    /\ Len(lastOp.pre) = 4
    /\ Len(moveReqs) = 3
    /\ Len(notes) = 6
    /\ notes[2].tabs # lastOp.pre
    /\ notes[3].tabs = notes[2].tabs
    /\ notes[4].tabs # notes[3].tabs
    /\ notes[6].tabs = m_tabs

\* the list an observer holds after the event announced by b and completed
\* by e, from the list it held before: the toolkit gives a move's destination
\* as the row to insert before, counted before the source row is taken out
C17_Observed(mirror, b, e) ==
    CASE b.sig = "beginInsertRows" ->
            InsertAt(mirror, b.args[1], e.tabs[b.args[1] + 1])
      [] b.sig = "beginRemoveRows" -> RemoveAt(mirror, b.args[1])
      [] b.sig = "beginMoveRows" ->
            LET src == b.args[1]
                dest == b.args[3]
            IN  InsertAt(RemoveAt(mirror, src),
                         IF dest > src THEN dest - 1 ELSE dest, mirror[src + 1])
      [] b.sig = "beginResetModel" -> e.tabs
      [] OTHER -> mirror

\* the observer's list equals the model's at the k-th end notification of ns
\* and at every one after it
RECURSIVE C17_InStep(_, _, _)
C17_InStep(mirror, ns, k) ==
    IF 2 * k > Len(ns) THEN TRUE
    ELSE LET seen == C17_Observed(mirror, ns[2 * k - 1], ns[2 * k]) IN
         seen = ns[2 * k].tabs /\ C17_InStep(seen, ns, k + 1)

C19_ChangeNamesValidRow ==
    lastOp.op \in Signals =>
        /\ \A k \in 1..Len(notes) :
              /\ notes[k].args[1] >= 0
              /\ notes[k].args[1] <= rowCount(m_tabs, FALSE) - 1
        /\ lastOp.args[1] \notin Range(m_tabs) => notes = <<>>

====
